---- MODULE Spec2Model ----
(***************************************************************************)
(* A model of dicom2hdf/transforms/applications.py: apply_transforms and   *)
(* the helpers it calls.  A patient record is a sequence of image and      *)
(* segmentation pairs; a pipeline is a sequence of transforms that is      *)
(* applied, transform by transform, first to every segmentation group and  *)
(* then to the images.                                                     *)
(***************************************************************************)
EXTENDS Integers, Sequences, FiniteSets, TLC

\* Bounds of the model.
MaxPairs == 2
MaxGroups == 2
MaxTransforms == 2

VARIABLES
    data,        \* patient_dataset.data: the sequence of pairs
    pipeline,    \* the transforms handed to apply_transforms
    compose,     \* TRUE when they were handed over as a Compose
    flag,        \* flag[i]: the mode attribute of transform i
    pc,          \* position of apply_transforms
    ti,          \* index of the transform of the current step
    gi,          \* index of the next segmentation group of the current step
    images,      \* the local `images` of _apply_transform_on_segmentations
    log,         \* the transform invocations made so far, in order
    last,        \* input and result of the latest _apply_transform call
    err,         \* the error apply_transforms ended with ("" when none)
    data0,       \* the record as it was handed to apply_transforms
    stepData,    \* the record as it was when the current step began
    branchData,  \* the record as it was when the current branch began
    resA, resB   \* results of whole calls (composition runs)

vars == <<data, pipeline, compose, flag, pc, ti, gi, images, log, last, err,
          data0, stepData, branchData, resA, resB>>

\* --------------------------------------------------------------- values

ModeNone == "NONE"
ModeImage == "IMAGE"
ModeSegmentation == "SEGMENTATION"

NoKey == "None"

\* A function (a Python dict) restricted to the keys in S.
Restrict(d, S) == [k \in S |-> d[k]]

\* b laid over a: dict assignment of every entry of b into a.
Overlay(a, b) ==
    [k \in DOMAIN a \cup DOMAIN b |-> IF k \in DOMAIN b THEN b[k] ELSE a[k]]

EmptyDict == [k \in {} |-> 0]

\* ------------------------------------------------------ patient records

ModalityOf(p) == <<"CT", "PT", "MR", "US">>[p]
SeriesKeyOf(p) == <<"T1", "T2", "T3", "T4">>[p]

\* A SimpleITK image: voxel content (what it depicts, and how many times it
\* was scaled), array dimensions, and the three spatial metadata fields.
SitkImage(tag, spacing, origin, direction) ==
    [pix |-> tag, times |-> 0, nd |-> 3,
     spacing |-> spacing, origin |-> origin, direction |-> direction]

\* Organ names of the g-th segmentation of a pair.
OrganNames(g) ==
    IF g % 2 = 1 THEN {"liver", "kidney"} ELSE {"kidney", "CT"}

PairOf(p, withSeries, ngroups) ==
    [series_key |-> IF withSeries THEN SeriesKeyOf(p) ELSE NoKey,
     modality |-> ModalityOf(p),
     transforms_key |-> NoKey,
     image |-> SitkImage(<<p, 0, "">>, p + 1, 10 * p, -p),
     segs |-> [g \in 1..ngroups |->
                 [o \in OrganNames(g) |->
                     SitkImage(<<p, g, o>>, p + 1, 10 * p, -p)]]]

\* The records of the model: up to MaxPairs pairs, each without segmentation
\* or with MaxGroups of them; the series keys are set for all pairs or none.
Records ==
    UNION {
        {[p \in 1..n |-> PairOf(p, withSeries, ng[p])] :
            ng \in [1..n -> {0, MaxGroups}], withSeries \in BOOLEAN}
        : n \in 1..MaxPairs}

\* ----------------------------------------------------------- transforms

KindDicom2hdf == "Dicom2hdfTransform"
KindMonai == "MonaiMapTransform"
KindOther == "other"

AllKeys == {"CT", "PT", "MR", "US", "T1", "T2", "T3", "T4", "liver", "kidney"}

Tr(kind, op, keys, strict) ==
    [kind |-> kind, op |-> op, keys |-> keys, strict |-> strict]

\* The transforms of the model: what a collaborator's transform may do.
\*   identity  returns its input
\*   scale     returns new objects, the ones under its keys scaled
\*   inplace   scales the objects under its keys in place and returns them
\*   drop      returns new objects, without the entries under its keys
\*   derive    returns its input with one more entry, under the key "mask"
\* A strict transform (allow_missing_keys = False) raises when one of its
\* keys is missing from its input.
Transforms ==
    { Tr(KindDicom2hdf, "identity", AllKeys, FALSE),
      Tr(KindDicom2hdf, "scale", AllKeys, FALSE),
      Tr(KindDicom2hdf, "inplace", AllKeys, FALSE),
      Tr(KindDicom2hdf, "scale", {"liver"}, TRUE),
      Tr(KindDicom2hdf, "drop", {"PT", "kidney"}, FALSE),
      Tr(KindMonai, "identity", AllKeys, FALSE),
      Tr(KindMonai, "scale", AllKeys, FALSE),
      Tr(KindMonai, "scale", {"liver"}, TRUE),
      Tr(KindMonai, "derive", AllKeys, FALSE),
      Tr(KindOther, "identity", {}, FALSE) }

Pipelines ==
    UNION {[1..n -> Transforms] : n \in 1..MaxTransforms}

\* ------------------------------------------------- dicom2hdf.transforms.tools

\* set_transforms_keys: the key of an image is its series key when it has
\* one, its modality otherwise.
SetTransformsKeys(d) ==
    [p \in DOMAIN d |->
        [d[p] EXCEPT !.transforms_key =
            IF d[p].series_key # NoKey THEN d[p].series_key ELSE d[p].modality]]

\* convert_to_numpy: a change of container type; content and shape are kept.
ConvertToNumpy(a) == a

\* ------------------------------------------------------ library functions

\* sitk.GetArrayFromImage: a fresh array of the voxels, without metadata.
GetArrayFromImage(img) == [pix |-> img.pix, times |-> img.times, nd |-> img.nd]

\* sitk.GetImageFromArray: an image of the array with default metadata.
GetImageFromArray(a) ==
    [pix |-> a.pix, times |-> a.times, nd |-> a.nd,
     spacing |-> 1, origin |-> 0, direction |-> 1]

\* EnsureChannelFirstD(keys, allow_missing_keys=True): a leading channel
\* axis is inserted in the arrays under `keys` that have none.
EnsureChannelFirstD(keys, arrs) ==
    [k \in DOMAIN arrs |->
        IF k \in keys /\ arrs[k].nd = 3 THEN [arrs[k] EXCEPT !.nd = 4]
        ELSE arrs[k]]

\* The objects of d under the keys of t, scaled.
Scaled(t, d) ==
    [k \in DOMAIN d |->
        IF k \in t.keys THEN [d[k] EXCEPT !.times = @ + 1] ELSE d[k]]

\* The objects of d and one more array, under "mask".
Derived(d) ==
    Overlay(d, [k \in {"mask"} |-> [pix |-> <<0, 0, "mask">>, times |-> 0, nd |-> 4]])

\* A transform called on d by monai's apply_transform: whether it raised,
\* what it returned, and d as the call left it (in-place changes).
TransformCall(t, d) ==
    IF t.strict /\ ~(t.keys \subseteq DOMAIN d)
    THEN [raised |-> TRUE, out |-> EmptyDict, mutated |-> d]
    ELSE IF t.op = "identity"
    THEN [raised |-> FALSE, out |-> d, mutated |-> d]
    ELSE IF t.op = "scale"
    THEN [raised |-> FALSE, out |-> Scaled(t, d), mutated |-> d]
    ELSE IF t.op = "drop"
    THEN [raised |-> FALSE, out |-> Restrict(d, DOMAIN d \ t.keys), mutated |-> d]
    ELSE IF t.op = "derive"
    THEN [raised |-> FALSE, out |-> Derived(d), mutated |-> d]
    ELSE [raised |-> FALSE, out |-> Scaled(t, d), mutated |-> Scaled(t, d)]

\* ------------------------------------------------------------ the engine
\* The engine works on e = [data, flag, log, last, err].  A dict of objects
\* maps a key to [val, ref]: ref = p > 0 when the object is the image of
\* pair p of the record, -1 when it is a label map of the record, 0 when it
\* is a private copy.

Vals(objs) == [k \in DOMAIN objs |-> objs[k].val]

Event(i, mode, seen, p, g) ==
    [t |-> i, branch |-> mode, flag |-> seen, p |-> p, g |-> g]

NoCall ==
    [t |-> 0, mode |-> ModeNone, p |-> 0, g |-> 0, input |-> EmptyDict,
     output |-> EmptyDict, none |-> FALSE, raised |-> FALSE]

\* transform.mode = mode.value (line 193)
SetMode(e, i, mode) == [e EXCEPT !.flag[i] = mode]

\* monai_apply_transform is entered (lines 195, 230): the invocation is
\* recorded with the flag the transform reads while it runs.
Invoked(e, i, mode, p, g) ==
    [e EXCEPT !.log = Append(@, Event(i, mode, e.flag[i], p, g))]

\* Lines 195-198 once the transform has answered r: an exception leaves
\* the function at line 195; otherwise the flag is reset and r returned.
Dicom2hdfReturn(e, i, r) ==
    IF r.raised
    THEN [e |-> [e EXCEPT !.err = "TransformError"],
          out |-> EmptyDict, none |-> FALSE, mutated |-> r.mutated,
          raised |-> TRUE]
    ELSE [e |-> [e EXCEPT !.flag[i] = ModeNone],
          out |-> r.out, none |-> FALSE, mutated |-> r.mutated,
          raised |-> FALSE]

\* _apply_dicom2hdf_transform (lines 193-198)
ApplyDicom2hdfTransform(e, i, t, d, mode, p, g) ==
    Dicom2hdfReturn(Invoked(SetMode(e, i, mode), i, mode, p, g), i,
                    TransformCall(t, d))

\* _SitkImageInfo of an image (line 227)
SitkImageInfo(img) ==
    [spacing |-> img.spacing, origin |-> img.origin, direction |-> img.direction]

\* lines 224-228: the metadata and the array of every object
Infos(d) == [k \in DOMAIN d |-> SitkImageInfo(d[k])]
Arrays(d) == [k \in DOMAIN d |-> GetArrayFromImage(d[k])]

\* RestoreImage without SetOrigin: the image keeps the default origin.
RestoreImageNoOrigin(a, inf) ==
    [GetImageFromArray(ConvertToNumpy(a)) EXCEPT
        !.spacing = inf.spacing, !.direction = inf.direction]

\* lines 233-238: the image of an array, with the captured metadata set
RestoreImage(a, inf) ==
    [GetImageFromArray(ConvertToNumpy(a)) EXCEPT
        !.spacing = inf.spacing, !.origin = inf.origin,
        !.direction = inf.direction]

\* Lines 230-242 once the transform has answered r.
MonaiReturn(e, info, r, d) ==
    IF r.raised
    THEN [e |-> [e EXCEPT !.err = "TransformError"],
          out |-> EmptyDict, none |-> FALSE, mutated |-> d, raised |-> TRUE]
    ELSE IF ~(DOMAIN r.out \subseteq DOMAIN info)
    THEN [e |-> [e EXCEPT !.err = "KeyError"],
          out |-> EmptyDict, none |-> FALSE, mutated |-> d, raised |-> TRUE]
    ELSE [e |-> e,
          out |-> [k \in DOMAIN r.out |-> RestoreImage(r.out[k], info[k])],
          none |-> FALSE, mutated |-> d, raised |-> FALSE]

\* _apply_monai_transforms (lines 221-242)
ApplyMonaiTransforms(e, i, t, d, mode, p, g) ==
    MonaiReturn(Invoked(e, i, mode, p, g), Infos(d),
                TransformCall(t, EnsureChannelFirstD(t.keys, Arrays(d))), d)

\* Dispatch with `else` for `elif`: whatever is not a Dicom2hdfTransform is
\* run as an array-space transform.
DispatchElse(e, i, t, d, mode, p, g) ==
    IF t.kind = KindDicom2hdf
    THEN ApplyDicom2hdfTransform(e, i, t, d, mode, p, g)
    ELSE ApplyMonaiTransforms(e, i, t, d, mode, p, g)

\* The isinstance dispatch of _apply_transform (lines 164-167): an element
\* of neither family falls off the end of the function, which returns None.
Dispatch(e, i, t, d, mode, p, g) ==
    IF t.kind = KindDicom2hdf
    THEN ApplyDicom2hdfTransform(e, i, t, d, mode, p, g)
    ELSE IF t.kind = KindMonai
    THEN ApplyMonaiTransforms(e, i, t, d, mode, p, g)
    ELSE [e |-> e, out |-> EmptyDict, none |-> TRUE, mutated |-> d,
          raised |-> FALSE]

\* The call r of _apply_transform recorded in e.last.
Recorded(r, i, d, mode, p, g) ==
    [r EXCEPT !.e.last =
        [t |-> i, mode |-> mode, p |-> p, g |-> g, input |-> d,
         output |-> r.out, none |-> r.none, raised |-> r.raised]]

\* _apply_transform (lines 164-167)
ApplyTransform(e, i, t, d, mode, p, g) ==
    Recorded(Dispatch(e, i, t, d, mode, p, g), i, d, mode, p, g)

\* The dict comprehension of lines 92 and 119: a later pair with the same
\* key replaces an earlier one.
ImagesDict(d) ==
    [k \in {d[p].transforms_key : p \in DOMAIN d} |->
        LET p == CHOOSE q \in DOMAIN d :
                    /\ d[q].transforms_key = k
                    /\ \A r \in DOMAIN d : d[r].transforms_key = k => r <= q
        IN  [val |-> d[p].image, ref |-> p]]

\* copy(images) for deepcopy(images): the objects are those of `images`.
ShallowCopy(objs) == objs

\* deepcopy(images) (line 126): every object is a private copy.
DeepCopy(objs) == [k \in DOMAIN objs |-> [val |-> objs[k].val, ref |-> 0]]

\* temp_dict (lines 126-128): the copy with the label maps of the group
\* assigned into it; the label maps are the record's own objects.
TempDict(imgs, lm) ==
    Overlay(DeepCopy(imgs), [o \in DOMAIN lm |-> [val |-> lm[o], ref |-> -1]])

\* The record after a call that left the objects of `objs` as `mutated`:
\* an object of the record that the call changed in place is changed in
\* the record too.  (p, g) is the group whose label maps objs refers to.
WriteThrough(d, objs, mutated, p, g) ==
    [q \in DOMAIN d |->
        LET ks == {k \in DOMAIN objs : objs[k].ref = q}
        IN  [d[q] EXCEPT
                !.image = IF ks = {} THEN @ ELSE mutated[CHOOSE k \in ks : TRUE],
                !.segs = [h \in DOMAIN @ |->
                            IF q = p /\ h = g
                            THEN [o \in DOMAIN @[h] |->
                                    IF o \in DOMAIN objs /\ objs[o].ref = -1
                                    THEN mutated[o] ELSE @[h][o]]
                            ELSE @[h]]]]

\* The dict `images` after the same call: it refers to the record's images.
ImagesAfter(imgs, objs, mutated) ==
    [k \in DOMAIN imgs |->
        IF k \in DOMAIN objs /\ objs[k].ref = imgs[k].ref
        THEN [imgs[k] EXCEPT !.val = mutated[k]] ELSE imgs[k]]

\* Lines 132-135 with r the result of line 130, e1 the engine and imgs1 the
\* dict `images` as the call left them.
SegGroupAssign(e1, imgs1, r, p, g) ==
    IF r.raised
    THEN [e |-> e1, images |-> imgs1]
    ELSE IF r.none /\ DOMAIN imgs1 # {}
    THEN [e |-> [e1 EXCEPT !.err = "AttributeError"], images |-> imgs1]
    ELSE IF ~r.none /\ ~(DOMAIN imgs1 \subseteq DOMAIN r.out)
    THEN [e |-> [e1 EXCEPT !.err = "KeyError"], images |-> imgs1]
    ELSE [e |-> [e1 EXCEPT !.data[p].segs[g] =
                    Restrict(r.out, DOMAIN r.out \ DOMAIN imgs1)],
          images |-> imgs1]

SegGroupReturn(imgs, temp_dict, r, p, g) ==
    SegGroupAssign(
        [r.e EXCEPT !.data = WriteThrough(@, temp_dict, r.mutated, p, g)],
        ImagesAfter(imgs, temp_dict, r.mutated), r, p, g)

SegGroupCall(e, imgs, temp_dict, i, t, p, g) ==
    SegGroupReturn(imgs, temp_dict,
        ApplyTransform(e, i, t, Vals(temp_dict), ModeSegmentation, p, g), p, g)

\* One pass of the inner loop of _apply_transform_on_segmentations
\* (lines 126-135) for group g of pair p; x = [e, images].
SegGroupStep(x, i, t, p, g) ==
    SegGroupCall(x.e, x.images, TempDict(x.images, x.e.data[p].segs[g]),
                 i, t, p, g)

\* GroupsFrom with the inner loop over reversed(segmentations).
RECURSIVE GroupsFromBackwards(_, _)
GroupsFromBackwards(d, p) ==
    IF p > Len(d) THEN <<>>
    ELSE [g \in 1..Len(d[p].segs) |-> <<p, Len(d[p].segs) + 1 - g>>]
            \o GroupsFromBackwards(d, p + 1)

\* The groups of the record in the order of the loops of lines 121-125.
RECURSIVE GroupsFrom(_, _)
GroupsFrom(d, p) ==
    IF p > Len(d) THEN <<>>
    ELSE [g \in 1..Len(d[p].segs) |-> <<p, g>>] \o GroupsFrom(d, p + 1)

RECURSIVE SegLoop(_, _, _, _, _)
SegLoop(x, i, t, order, n) ==
    IF n > Len(order) \/ x.e.err # "" THEN x
    ELSE SegLoop(SegGroupStep(x, i, t, order[n][1], order[n][2]),
                 i, t, order, n + 1)

\* _apply_transform_on_segmentations (lines 119-135)
ApplyTransformOnSegmentations(e, i, t) ==
    SegLoop([e |-> e, images |-> ImagesDict(e.data)], i, t,
            GroupsFrom(e.data, 1), 1).e

\* Lines 95-97 with r the result of line 94 and e1 the engine as the call
\* left it: the images are assigned pair by pair.
ImagesAssign(e1, r) ==
    LET bad == {q \in DOMAIN e1.data :
                    e1.data[q].transforms_key \notin DOMAIN r.out}
    IN  IF r.raised THEN e1
        ELSE IF r.none
        THEN IF Len(e1.data) = 0 THEN e1 ELSE [e1 EXCEPT !.err = "TypeError"]
        ELSE [e1 EXCEPT
                !.data = [q \in DOMAIN @ |->
                            IF \A b \in bad : q < b
                            THEN [@[q] EXCEPT
                                    !.image = r.out[e1.data[q].transforms_key]]
                            ELSE @[q]],
                !.err = IF bad = {} THEN "" ELSE "KeyError"]

ImagesReturn(imgs, r) ==
    ImagesAssign([r.e EXCEPT !.data = WriteThrough(@, imgs, r.mutated, 0, 0)], r)

ImagesCall(e, imgs, i, t) ==
    ImagesReturn(imgs, ApplyTransform(e, i, t, Vals(imgs), ModeImage, 0, 0))

\* _apply_transform_on_images (lines 92-97)
ApplyTransformOnImages(e, i, t) == ImagesCall(e, ImagesDict(e.data), i, t)

\* The second call of a step (lines 58-61, 67-70) is reached only when the
\* first returned.
ImagesAfterSegmentations(s, i, t) ==
    IF s.err # "" THEN s ELSE ApplyTransformOnImages(s, i, t)

\* One pass of the loop of lines 53-61 (or lines 63-70 for one transform).
ApplyStep(e, i, t) ==
    ImagesAfterSegmentations(ApplyTransformOnSegmentations(e, i, t), i, t)

RECURSIVE StepLoop(_, _, _)
StepLoop(e, transforms, i) ==
    IF i > Len(transforms) \/ e.err # "" THEN e
    ELSE StepLoop(ApplyStep(e, i, transforms[i]), transforms, i + 1)

\* The engine on entry, after line 50.
Entered(d, flags) ==
    [data |-> SetTransformsKeys(d), flag |-> flags, log |-> <<>>,
     last |-> NoCall, err |-> ""]

\* ApplyTransforms with lines 63-66 missing: a transform that is not a
\* Compose is applied to the images only.
ApplyTransformsImagesOnly(d, transforms, isCompose, flags) ==
    IF isCompose THEN StepLoop(Entered(d, flags), transforms, 1)
    ELSE ApplyTransformOnImages(Entered(d, flags), 1, transforms[1])

\* apply_transforms (lines 50-70) on record d.
ApplyTransforms(d, transforms, isCompose, flags) ==
    IF isCompose THEN StepLoop(Entered(d, flags), transforms, 1)
    ELSE ApplyStep(Entered(d, flags), 1, transforms[1])

\* ---------------------------------------------------- the state machine

\* Where apply_transforms goes on after one segmentation group (lines
\* 121-135): an exception leaves the function, otherwise the loops go on.
AfterSegmentation(error, more) ==
    IF error # "" THEN "raised" ELSE IF more THEN "seg_group" ELSE "img"

\* AfterImages with the exception of a step swallowed: the loop goes on.
AfterImagesSwallowed(error, more) ==
    IF more THEN "seg_begin" ELSE IF error # "" THEN "raised" ELSE "done"

\* Where it goes on after the images of a step (lines 53-61, 63-70).
AfterImages(error, more) ==
    IF error # "" THEN "raised" ELSE IF more THEN "seg_begin" ELSE "done"

Engine == [data |-> data, flag |-> flag, log |-> log, last |-> last, err |-> err]

NoRun == [calls |-> 0, data |-> <<>>, err |-> ""]

AllNone(transforms) == [i \in DOMAIN transforms |-> ModeNone]

Init ==
    /\ data \in Records
    /\ pipeline \in Pipelines
    /\ compose \in BOOLEAN
    /\ Len(pipeline) > 1 => compose
    /\ flag = AllNone(pipeline)
    /\ pc = "call"
    /\ ti = 0
    /\ gi = 0
    /\ images = EmptyDict
    /\ log = <<>>
    /\ last = NoCall
    /\ err = ""
    /\ data0 = data
    /\ stepData = data
    /\ branchData = data
    /\ resA = NoRun
    /\ resB = NoRun

\* apply_transforms is entered: line 50.
Call ==
    /\ pc = "call"
    /\ data' = SetTransformsKeys(data)
    /\ pc' = "seg_begin"
    /\ ti' = 1
    /\ UNCHANGED <<pipeline, compose, flag, gi, images, log, last, err,
                   data0, stepData, branchData, resA, resB>>

\* _apply_transform_on_segmentations is entered: line 119.
BeginSegmentations ==
    /\ pc = "seg_begin"
    /\ images' = ImagesDict(data)
    /\ stepData' = data
    /\ branchData' = data
    /\ gi' = 1
    /\ pc' = IF GroupsFrom(data, 1) = <<>> THEN "img" ELSE "seg_group"
    /\ UNCHANGED <<data, pipeline, compose, flag, ti, log, last, err, data0,
                   resA, resB>>

\* One segmentation group: lines 126-135.
SegmentationGroup ==
    /\ pc = "seg_group"
    /\ \E order \in {GroupsFrom(data, 1)} :
       \E s \in {SegGroupStep([e |-> Engine, images |-> images], ti,
                              pipeline[ti], order[gi][1], order[gi][2])} :
           /\ data' = s.e.data
           /\ flag' = s.e.flag
           /\ log' = s.e.log
           /\ last' = s.e.last
           /\ err' = s.e.err
           /\ images' = s.images
           /\ gi' = gi + 1
           /\ pc' = AfterSegmentation(s.e.err, gi < Len(order))
    /\ UNCHANGED <<pipeline, compose, ti, data0, stepData, branchData,
                   resA, resB>>

\* _apply_transform_on_images: lines 92-97, then the next transform.
ApplyOnImages ==
    /\ pc = "img"
    /\ \E s \in {ApplyTransformOnImages(Engine, ti, pipeline[ti])} :
           /\ data' = s.data
           /\ flag' = s.flag
           /\ log' = s.log
           /\ last' = s.last
           /\ err' = s.err
           /\ pc' = AfterImages(s.err, compose /\ ti < Len(pipeline))
           /\ ti' = IF pc' = "seg_begin" THEN ti + 1 ELSE ti
    /\ branchData' = data
    /\ UNCHANGED <<pipeline, compose, gi, images, data0, stepData, resA, resB>>

Next == Call \/ BeginSegmentations \/ SegmentationGroup \/ ApplyOnImages

Spec == Init /\ [][Next]_vars

\* ----------------------------------------- whole calls, for composition
\* The same record handed once to apply_transforms with the pipeline as a
\* Compose (resA), and to one call of apply_transforms per transform, each
\* on the record the call before left (resB).

Outcome(e, k) == [calls |-> k, data |-> e.data, err |-> e.err]

InitCompose ==
    /\ data \in Records
    /\ pipeline \in Pipelines
    /\ compose = TRUE
    /\ flag = AllNone(pipeline)
    /\ pc = "compare"
    /\ ti = 0
    /\ gi = 0
    /\ images = EmptyDict
    /\ log = <<>>
    /\ last = NoCall
    /\ err = ""
    /\ data0 = data
    /\ stepData = data
    /\ branchData = data
    /\ resA = NoRun
    /\ resB = NoRun

ComposeCall ==
    /\ pc = "compare"
    /\ resA.calls = 0
    /\ resA' = Outcome(ApplyTransforms(data, pipeline, TRUE, AllNone(pipeline)), 1)
    /\ UNCHANGED <<data, pipeline, compose, flag, pc, ti, gi, images, log,
                   last, err, data0, stepData, branchData, resB>>

SingleCall ==
    /\ pc = "compare"
    /\ resB.calls < Len(pipeline)
    /\ resB.err = ""
    /\ resB' = Outcome(
            ApplyTransforms(IF resB.calls = 0 THEN data ELSE resB.data,
                            <<pipeline[resB.calls + 1]>>, FALSE, <<ModeNone>>),
            resB.calls + 1)
    /\ UNCHANGED <<data, pipeline, compose, flag, pc, ti, gi, images, log,
                   last, err, data0, stepData, branchData, resA>>

NextCompose == ComposeCall \/ SingleCall

SpecCompose == InitCompose /\ [][NextCompose]_vars

\* ------------------------------------------------------------ properties

TypeOK ==
    /\ pc \in {"call", "seg_begin", "seg_group", "img", "done", "raised"}
    /\ err \in {"", "TransformError", "AttributeError", "TypeError", "KeyError"}
    /\ (pc = "raised") <=> (err # "")

\* The whole call computed at once agrees with the steps of the machine.
StepsAgree ==
    pc \in {"done", "raised"} =>
        ApplyTransforms(data0, pipeline, compose, AllNone(pipeline)) = Engine

\* ---------------------------------------------------------------- claims

EventKey(ev) == <<ev.t, ev.branch, ev.p, ev.g>>

\* Invocation a comes before invocation b in the declared order: by
\* transform, then segmentations before images, then by pair, then by group.
KeyBefore(a, b) ==
    \/ a[1] < b[1]
    \/ /\ a[1] = b[1]
       /\ a[2] = ModeSegmentation
       /\ \/ b[2] = ModeImage
          \/ /\ b[2] = ModeSegmentation
             /\ (a[3] < b[3] \/ (a[3] = b[3] /\ a[4] < b[4]))

\* The invocations a complete run of the pipeline on the record makes.
ExpectedKeys ==
    UNION {{<<i, ModeSegmentation, p, g>> : g \in DOMAIN data[p].segs} :
                i \in DOMAIN pipeline, p \in DOMAIN data}
    \cup {<<i, ModeImage, 0, 0>> : i \in DOMAIN pipeline}

LoggedBefore(n) == {EventKey(log[m]) : m \in 1..(n - 1)}

\* C1: the transforms are invoked strictly in pipeline order; within the
\* step of a transform there is one invocation per segmentation group, in
\* pair order then group order, all before the one invocation on the
\* images.  Every invocation is one of the declared ones, each comes before
\* the next in the declared order (a transitive order), none is skipped (the
\* declared invocations before the latest one are as many as were made
\* before it), and a run that completes has made them all.
C1_PipelineOrder ==
    \A expected \in {ExpectedKeys} :
        /\ \A n \in DOMAIN log : EventKey(log[n]) \in expected
        /\ \A n \in 1..(Len(log) - 1) :
                KeyBefore(EventKey(log[n]), EventKey(log[n + 1]))
        /\ \A n \in {Len(log)} \ {0} :
                Cardinality({x \in expected : KeyBefore(x, EventKey(log[n]))})
                    = n - 1
        /\ pc = "done" => Len(log) = Cardinality(expected)

C1_Witness ==
    /\ pc = "done"
    /\ compose
    /\ Len(pipeline) > 1
    /\ Cardinality({p \in DOMAIN data : Len(data[p].segs) > 1}) > 1
    /\ Len(log) = Len(pipeline) * (Len(GroupsFrom(data, 1)) + 1)

\* A segmentation group of the current step has just been handed to the
\* transform and the transform answered with the keys it was given.
SameKeysAnswer ==
    /\ last.mode = ModeSegmentation
    /\ ~last.raised
    /\ ~last.none
    /\ err = ""
    /\ DOMAIN last.output = DOMAIN last.input

\* C2: after the segmentation application of a transform that returns the
\* key set it was given, the group has exactly the organ keys it had before
\* the step and no entry of the image collection among its label maps, also
\* when one of its organ names equals the key of an image.
C2_OrganKeysKept ==
    SameKeysAnswer =>
        /\ DOMAIN data[last.p].segs[last.g] = DOMAIN stepData[last.p].segs[last.g]
        /\ \A o \in DOMAIN data[last.p].segs[last.g] :
                data[last.p].segs[last.g][o].pix[2] # 0

\* The image collection as built when the current step began.
BaseAtStep == Vals(ImagesDict(stepData))

\* What the latest SEGMENTATION invocation received, with `shadowed` the
\* image keys under which it need not have received the image.
Received(shadowed) ==
    /\ DOMAIN last.input = DOMAIN BaseAtStep \cup DOMAIN stepData[last.p].segs[last.g]
    /\ \A o \in DOMAIN stepData[last.p].segs[last.g] :
            last.input[o] = stepData[last.p].segs[last.g][o]
    /\ \A k \in DOMAIN BaseAtStep \ shadowed : last.input[k] = BaseAtStep[k]

\* No SEGMENTATION invocation of the current step has changed the dict
\* `images` or an image of the record.
BaseUntouched ==
    /\ Vals(images) = BaseAtStep
    /\ \A p \in DOMAIN data : data[p].image = stepData[p].image

\* C3 as stated: every group receives, under every image key, the image the
\* record held when the step began.
C3_Original ==
    last.mode = ModeSegmentation => BaseUntouched /\ Received({})

\* C3 as amended: group isolation.  During the segmentation application of
\* a step no invocation changes the dict `images` or an image of the
\* record; every group receives its own label maps under its organ names,
\* the images the record held when the step began under the image keys that
\* are not organ names of the group, and nothing else.
C3_GroupIsolation ==
    last.mode = ModeSegmentation =>
        BaseUntouched /\ Received(DOMAIN stepData[last.p].segs[last.g])

C3_Witness ==
    /\ last.mode = ModeSegmentation
    /\ pipeline[ti].op = "inplace"
    /\ last.g > 1
    /\ err = ""
    /\ \E k \in DOMAIN BaseAtStep : k \in DOMAIN stepData[last.p].segs[last.g]
    /\ \E k \in DOMAIN last.output : last.output[k] # last.input[k]

\* C4: the record left by one call with the pipeline as a Compose equals
\* the record left by one call per transform, in order, each on the record
\* the call before left, when no call raises; for a pipeline of one
\* transform, the transform alone behaves as the one-element Compose.
C4_Composition ==
    (/\ resA.calls = 1
     /\ resB.calls = Len(pipeline)
     /\ resA.err = ""
     /\ resB.err = "") => resA.data = resB.data

C4_Witness ==
    /\ resA.calls = 1
    /\ resB.calls = Len(pipeline)
    /\ Len(pipeline) > 1
    /\ resA.err = ""
    /\ resB.err = ""
    /\ \E p \in DOMAIN data : Len(data[p].segs) > 0
    /\ \A p \in DOMAIN data :
            /\ resA.data[p].image.times = Len(pipeline)
            /\ resB.data[p].transforms_key # NoKey

\* The run ended because the transform raised.
TransformRaised == pc = "raised" /\ err = "TransformError"

\* The record as the complete application of transforms 1..k leaves it.
AfterSteps(k) ==
    StepLoop(Entered(data0, AllNone(pipeline)), SubSeq(pipeline, 1, k), 1).data

\* C5: when the invocation of transform k raises, the run ends with that
\* error and that invocation is the last one made; no later transform is
\* invoked; every invocation of the transforms before k has been made and
\* the record as step k found it is the record those transforms produce;
\* nothing is rolled back: the images, and the label maps of the groups
\* transform k has not answered for, are as step k found them.
C5_FailureSemantics ==
    /\ last.raised => pc = "raised" /\ err # ""
    /\ TransformRaised =>
            /\ last.raised
            /\ last.t = ti
            /\ Len(log) > 0
            /\ EventKey(log[Len(log)]) = <<last.t, last.mode, last.p, last.g>>
            /\ \A n \in DOMAIN log : log[n].t <= last.t
            /\ \A x \in ExpectedKeys : x[1] < last.t => x \in LoggedBefore(Len(log))
            /\ stepData = AfterSteps(last.t - 1)
            /\ \A p \in DOMAIN data :
                /\ data[p].image = stepData[p].image
                /\ \A g \in DOMAIN data[p].segs :
                    <<last.t, ModeSegmentation, p, g>> \notin LoggedBefore(Len(log))
                        => data[p].segs[g] = stepData[p].segs[g]

C5_Witness ==
    /\ TransformRaised
    /\ last.t > 1
    /\ last.mode = ModeSegmentation
    /\ last.g > 1
    /\ data[last.p].segs[1] # stepData[last.p].segs[1]
    /\ \A p \in DOMAIN data : data[p].image.times > 0

\* The latest call of _apply_transform took the array-space path and
\* returned.
MonaiAnswer ==
    /\ last.t > 0
    /\ pipeline[last.t].kind = KindMonai
    /\ ~last.raised

\* C6: every object an array-space transform returns carries the spacing,
\* origin and direction that the object handed in under the same key had,
\* whatever the transform did to the voxels, when the transform returns the
\* keys it was given.
C6_MetadataKept ==
    (MonaiAnswer /\ DOMAIN last.output = DOMAIN last.input) =>
        \A k \in DOMAIN last.output :
            SitkImageInfo(last.output[k]) = SitkImageInfo(last.input[k])

C6_Witness ==
    /\ MonaiAnswer
    /\ DOMAIN last.output = DOMAIN last.input
    /\ \E j, k \in DOMAIN last.output :
            /\ SitkImageInfo(last.input[j]) # SitkImageInfo(last.input[k])
            /\ last.output[k].times > last.input[k].times

\* Every transform of the pipeline returns its input unchanged.
IdentityPipeline ==
    \A i \in DOMAIN pipeline :
        /\ pipeline[i].op = "identity"
        /\ pipeline[i].kind \in {KindDicom2hdf, KindMonai}

\* C7: a pipeline of identity transforms, of either family, leaves every
\* image and every label map of the record as it was: voxels, array
\* dimensions, spacing, origin, direction, and the organ keys of each group.
C7_IdentityKeepsRecord ==
    (pc = "done" /\ IdentityPipeline) =>
        \A p \in DOMAIN data :
            /\ data[p].image = data0[p].image
            /\ data[p].segs = data0[p].segs

\* C8: when the transform raises during a branch of a step, everything the
\* branch writes is as it was when the branch began: the label maps of all
\* groups for the segmentation branch, the images for the image branch.
C8_BranchAtomic ==
    TransformRaised =>
        \A p \in DOMAIN data :
            IF last.mode = ModeSegmentation
            THEN data[p].segs = branchData[p].segs
            ELSE data[p].image = branchData[p].image

\* C9: a physical-space transform reads IMAGE in its flag during the
\* invocations of the image application and SEGMENTATION during those of
\* the segmentation application, and whenever no invocation is in progress
\* (between groups, between steps, after apply_transforms ended) the flag
\* of every transform reads NONE.
C9_ModeFlag ==
    /\ \A n \in DOMAIN log :
            pipeline[log[n].t].kind = KindDicom2hdf => log[n].flag = log[n].branch
    /\ \A i \in DOMAIN pipeline : flag[i] = ModeNone

\* C10: an element of neither family is never invoked and its flag is never
\* touched; _apply_transform answers None for it without raising, and
\* neither the collection it was given nor an image or label map of the
\* record is changed or replaced on its account.
C10_UnsupportedKind ==
    /\ \A i \in DOMAIN pipeline :
            pipeline[i].kind = KindOther =>
                /\ flag[i] = ModeNone
                /\ \A n \in DOMAIN log : log[n].t # i
    /\ last.none => pipeline[last.t].kind = KindOther
    /\ (last.t > 0 /\ pipeline[last.t].kind = KindOther) =>
            /\ last.none
            /\ ~last.raised
            /\ data = stepData
            /\ last.mode = ModeSegmentation => Vals(images) = BaseAtStep

C10_Witness ==
    /\ last.none
    /\ last.t > 1
    /\ last.mode = ModeSegmentation
    /\ \E p \in DOMAIN data : data[p].image.times > 0

====
